---- MODULE Spec2Model ----
(***************************************************************************)
(* Temperature Logger (src/main.py): the presentation context             *)
(* (MainWindow: toggle_port, browse_file_folder, acquire_data,            *)
(* update_chart) and the acquisition context (DataAcquirer:               *)
(* data_acquire_loop, one QThread per session), with the serial objects,  *)
(* the per-session log file and the queued signal deliveries between the  *)
(* two contexts.                                                           *)
(***************************************************************************)
EXTENDS Integers, Sequences, FiniteSets, TLC

\* ------------------------------------------------------------------ bounds
\* Sessions (DataAcquirer objects) the model lets acquire_data create.
MaxSessions == 2
\* Temperature lines the device sends in a run with a single session.
MaxSamples == 4
\* Temperature lines the device sends in a run in which a session is started
\* again after a stop.
RestartSamples == 0
\* Capacity of the history buffer (4000 at line 291 of src/main.py),
\* scaled down so that eviction happens within MaxSamples pushes.
NMax == 3
\* len(self.plot_y) > 2: the size above which update_chart recomputes stdev.
StdevMinLen == 2

Sessions == 1..MaxSessions
\* Serial objects alive at once: one per session plus the one self.ser holds.
SerIds == 1..(MaxSessions + 1)
None == 0

\* ------------------------------------------------------- text and numbers
\* Characters are one-character strings, text is a sequence of them.
DigitChars == <<"0", "1", "2", "3", "4", "5", "6", "7", "8", "9">>
IsDigit(c) == \E i \in 1..10 : DigitChars[i] = c
DigitVal(c) == (CHOOSE i \in 1..10 : DigitChars[i] = c) - 1

\* str(bytes): the repr of a bytes object, b'...'.
PyStr(bytes) == <<"b", "'">> \o bytes \o <<"'">>

\* str.find(ch): 0-based index of the first occurrence, -1 if none.
Find(s, ch) ==
    IF \E i \in 1..Len(s) : s[i] = ch
    THEN (CHOOSE i \in 1..Len(s) : s[i] = ch /\ \A j \in 1..(i - 1) : s[j] # ch) - 1
    ELSE -1

\* s[a:b] for 0 <= a <= b, clipped to the length of s as Python clips it.
Slice(s, a, b) ==
    LET hi == IF b < Len(s) THEN b ELSE Len(s)
    IN  IF a >= hi THEN <<>> ELSE SubSeq(s, a + 1, hi)

RECURSIVE StripLeft(_)
StripLeft(s) == IF s # <<>> /\ Head(s) = " " THEN StripLeft(Tail(s)) ELSE s
RECURSIVE StripRight(_)
StripRight(s) ==
    IF s # <<>> /\ s[Len(s)] = " " THEN StripRight(SubSeq(s, 1, Len(s) - 1)) ELSE s

RECURSIVE DigitsValue(_)
DigitsValue(s) ==
    IF s = <<>> THEN 0 ELSE DigitsValue(SubSeq(s, 1, Len(s) - 1)) * 10 + DigitVal(s[Len(s)])

\* float(text) for decimal text: surrounding blanks, an optional sign, digits
\* with at most one point and at least one digit.  ok: float() returned, and
\* then val is the value in hundredths (fraction digits beyond the second do
\* not occur in DeviceLines); ~ok: float() raised ValueError.
Float(text) ==
    LET t    == StripRight(StripLeft(text))
        neg  == t # <<>> /\ Head(t) = "-"
        u    == IF t # <<>> /\ Head(t) \in {"-", "+"} THEN Tail(t) ELSE t
        dot  == Find(u, ".")
        ip   == IF dot = -1 THEN u ELSE SubSeq(u, 1, dot)
        fp   == IF dot = -1 THEN <<>> ELSE SubSeq(u, dot + 2, Len(u))
        ok   == /\ \A i \in 1..Len(ip) : IsDigit(ip[i])
                /\ \A i \in 1..Len(fp) : IsDigit(fp[i])
                /\ Len(ip) + Len(fp) > 0
        fp2  == SubSeq(fp \o <<"0", "0">>, 1, 2)
        mag  == DigitsValue(ip) * 100 + DigitsValue(fp2)
    IN  [ok |-> ok, val |-> IF ~ok THEN 0 ELSE IF neg THEN 0 - mag ELSE mag]

\* A cycle that takes whatever follows the marker for a temperature: a field
\* that is not a number counts as 0 instead of raising.
ParseLineAnyField(bytes) ==
    LET string_sent == PyStr(bytes)
        t_index     == Find(string_sent, "T")
        temperature == Float(Slice(string_sent, t_index + 2, t_index + 9))
    IN  IF t_index = -1 THEN [kind |-> "NoData", val |-> 0]
        ELSE [kind |-> "Sample", val |-> temperature.val]

\* Lines 335-339: what one cycle makes of the bytes readline() returned:
\* "NoData" (no 'T'), "ValueError" (float() raised) or "Sample" with the
\* temperature.
ParseLine(bytes) ==
    LET string_sent == PyStr(bytes)
        t_index     == Find(string_sent, "T")
        temperature == Float(Slice(string_sent, t_index + 2, t_index + 9))
    IN  IF t_index = -1 THEN [kind |-> "NoData", val |-> 0]
        ELSE IF ~temperature.ok THEN [kind |-> "ValueError", val |-> 0]
        ELSE [kind |-> "Sample", val |-> temperature.val]

\* The temperature lines of the device: its k-th one reads 20.50 for odd k
\* and 20.70 for even k.
TemperatureLine(k) ==
    IF k % 2 = 1 THEN <<"T", ",", "0", "0", "2", "0", ".", "5", "0">>
    ELSE <<"T", ",", "0", "0", "2", "0", ".", "7", "0">>

\* What readline() can return when k temperature lines have been read: a
\* timeout (b''), a line without the marker, a line whose field is not a
\* number, the next temperature line.
DeviceLines(k) ==
    { <<>>,
      <<"O", "K">>,
      <<"T", ",", "E", "R", "R">>,
      TemperatureLine(k + 1) }

\* ------------------------------------------------------------- statistics
RECURSIVE SumSeq(_)
SumSeq(s) == IF s = <<>> THEN 0 ELSE Head(s) + SumSeq(Tail(s))

\* floor(sqrt(q)) by bisection on lo..hi.
RECURSIVE ISqrtIn(_, _, _)
ISqrtIn(q, lo, hi) ==
    IF lo >= hi THEN lo
    ELSE LET mid == (lo + hi + 1) \div 2
         IN  IF mid * mid <= q THEN ISqrtIn(q, mid, hi) ELSE ISqrtIn(q, lo, mid - 1)
ISqrt(q) == ISqrtIn(q, 0, 40000)

\* round(statistics.stdev(ys), 4) for ys in hundredths, in units of 1e-4:
\* the Bessel-corrected deviation sqrt(sum((y - mean)^2) / (n - 1)) of the
\* whole list, to the nearest 1e-4.  Defined for n >= 2 (stdev raises below).
Stdev4(ys) ==
    LET n   == Len(ys)
        s   == SumSeq(ys)
        dev == [i \in 1..n |-> (n * ys[i] - s) * (n * ys[i] - s)]
        q   == (10000 * SumSeq(dev)) \div (n * n * (n - 1))
        r   == ISqrt(q)
    IN  IF q - r * r > r THEN r + 1 ELSE r

\* ------------------------------------------------------------------ state
VARIABLES
    app,                  \* "running", or "aborted" once the Qt runtime has ended the process
    ser,                  \* MainWindow.ser: None or a Serial object
    serOpen,              \* per Serial object: is_open
    folder_path_lineedit, \* text of the folder line edit ("" until a folder is chosen)
    measuring,            \* MainWindow.measuring
    data_thread,          \* MainWindow.data_thread: None or the latest DataAcquirer
    connect_text,         \* connect_button text
    connect_enabled,      \* connect_button enabled
    browse_enabled,       \* browse_path_button enabled
    connection_status,    \* connection_status text
    start_text,           \* start_acquire text
    plot_x, plot_y,       \* the history buffer (times, temperatures)
    current_temp,         \* current_temp label
    stdev_temp,           \* stdev_temp label
    events,               \* new_data deliveries queued for update_chart
    pushed,               \* every sample update_chart has received, in order
    now,                  \* samples captured so far; the next one's time_now
    pc,                   \* per DataAcquirer: position in data_acquire_loop
    dt_measuring,         \* per DataAcquirer: DataAcquirer.measuring
    serial_object,        \* per DataAcquirer: DataAcquirer.serial_object
    f,                    \* per DataAcquirer: the local f ("unbound", "open", "closed")
    data,                 \* per DataAcquirer: the local data = [temperature, time_now]
    log,                  \* per DataAcquirer: lines of the file at file_path
    emitted,              \* per DataAcquirer: samples new_data.emit has sent
    finished,             \* per DataAcquirer: times finished.emit has run
    qthread,              \* per DataAcquirer: its QThread ("none", "running", "finished")
    reads                 \* per DataAcquirer: readline() calls so far: "none" made,
                          \* "raised" (every one raised) or "returned" (one returned)

uiVars == <<ser, serOpen, folder_path_lineedit, measuring, data_thread, connect_text,
            connect_enabled, browse_enabled, connection_status, start_text>>
chartVars == <<plot_x, plot_y, current_temp, stdev_temp, pushed>>
loopVars == <<pc, dt_measuring, serial_object, f, data, log, emitted, finished, qthread,
              reads>>
vars == <<app, uiVars, chartVars, events, now, loopVars>>

NoSample == <<0, 0>>
\* A label: the text as constructed ('0') or the number last formatted into it.
InitialLabel == [shown |-> "0", val |-> 0]
ValueLabel(v) == [shown |-> "value C", val |-> v]

\* __init__ (lines 38-55) and init_ui (lines 92-131): nothing connected, no
\* folder, not measuring, empty lists, both labels '0'.
Init ==
    /\ app = "running"
    /\ ser = None
    /\ serOpen = [i \in SerIds |-> FALSE]
    /\ folder_path_lineedit = ""
    /\ measuring = FALSE
    /\ data_thread = None
    /\ connect_text = "Connect"
    /\ connect_enabled = TRUE
    /\ browse_enabled = TRUE
    /\ connection_status = " No Connection "
    /\ start_text = "Acquire Data"
    /\ plot_x = <<>>
    /\ plot_y = <<>>
    /\ current_temp = InitialLabel
    /\ stdev_temp = InitialLabel
    /\ events = <<>>
    /\ pushed = <<>>
    /\ now = 0
    /\ pc = [s \in Sessions |-> "none"]
    /\ dt_measuring = [s \in Sessions |-> FALSE]
    /\ serial_object = [s \in Sessions |-> None]
    /\ f = [s \in Sessions |-> "unbound"]
    /\ data = [s \in Sessions |-> NoSample]
    /\ log = [s \in Sessions |-> <<>>]
    /\ emitted = [s \in Sessions |-> <<>>]
    /\ finished = [s \in Sessions |-> 0]
    /\ qthread = [s \in Sessions |-> "none"]
    /\ reads = [s \in Sessions |-> "none"]

\* An exception that leaves a slot: PyQt prints the traceback and goes on, or
\* (from 5.5 on, no excepthook installed) ends the process.
Escapes == app' \in {"running", "aborted"}

\* The Serial object a new serial.Serial(...) yields: one no live reference
\* (self.ser, a DataAcquirer's serial_object) names.
NewSerial ==
    CHOOSE i \in SerIds :
        /\ i # ser
        /\ \A s \in Sessions : serial_object[s] # i
        /\ \A j \in SerIds : (j # ser /\ \A s \in Sessions : serial_object[s] # j) => i <= j

\* Temperature lines the device can still be asked for: the run's bound.
SampleBudget == IF data_thread <= 1 THEN MaxSamples ELSE RestartSamples

\* ------------------------------------------------- presentation context
\* toggle_port (lines 195-224); opened: whether self.ser.open() succeeds.
TogglePort(opened) ==
    IF ser # None
    THEN /\ serOpen' = [serOpen EXCEPT ![ser] = FALSE]
         /\ ser' = None
         /\ connect_text' = "Connect"
         /\ connection_status' = "No Connection"
    ELSE /\ ser' = NewSerial
         /\ IF opened
            THEN /\ serOpen' = [serOpen EXCEPT ![NewSerial] = TRUE]
                 /\ connect_text' = "Disconnect"
                 /\ connection_status' = "CONNECTED"
            ELSE UNCHANGED <<serOpen, connect_text, connection_status>>

\* The connect button, while enabled, calls toggle_port.
toggle_port ==
    /\ app = "running"
    /\ connect_enabled
    /\ \E opened \in BOOLEAN : TogglePort(opened)
    /\ UNCHANGED <<app, folder_path_lineedit, measuring, data_thread, connect_enabled,
                   browse_enabled, start_text, chartVars, events, now, loopVars>>

\* browse_file_folder (lines 226-234): the dialog returns a folder that
\* exists, or '' when it is cancelled.
browse_file_folder ==
    /\ app = "running"
    /\ browse_enabled
    /\ \E folder_path \in {"", "dir"} :
          folder_path_lineedit' = IF folder_path # "" THEN folder_path
                                  ELSE folder_path_lineedit
    /\ UNCHANGED <<app, ser, serOpen, measuring, data_thread, connect_text,
                   connect_enabled, browse_enabled, connection_status, start_text,
                   chartVars, events, now, loopVars>>

\* Lines 247-248 without the test of the folder text at line 248.
StartReadyNoFolderTest == ser # None

\* Lines 247-248: a Serial object is held and the folder text is not empty.
StartReady == ser # None /\ folder_path_lineedit # ""

\* Lines 268-271: acquire_data while not measuring and not ready only prints
\* a message and returns.
StartRefused ==
    /\ ~measuring
    /\ ~StartReady
    /\ UNCHANGED vars

\* Lines 249-250: the button text is set, then flushOutput() raises on a
\* Serial object whose port is not open (a failed open leaves one in
\* self.ser) and leaves the slot.
StartRaises ==
    /\ ~measuring
    /\ StartReady
    /\ ~serOpen[ser]
    /\ start_text' = "Stop Acquire"
    /\ Escapes
    /\ UNCHANGED <<ser, serOpen, folder_path_lineedit, measuring, data_thread,
                   connect_text, connect_enabled, browse_enabled, connection_status,
                   chartVars, events, now, loopVars>>

\* Lines 249-256 when the previous QThread is still running as self.thread is
\* rebound: the object loses its last reference and Qt ends the process on
\* destroying a running QThread.
StartAborts ==
    /\ ~measuring
    /\ StartReady
    /\ serOpen[ser]
    /\ data_thread # None
    /\ qthread[data_thread] = "running"
    /\ start_text' = "Stop Acquire"
    /\ measuring' = TRUE
    /\ app' = "aborted"
    /\ UNCHANGED <<ser, serOpen, folder_path_lineedit, data_thread, connect_text,
                   connect_enabled, browse_enabled, connection_status, chartVars,
                   events, now, loopVars>>

\* A start that leaves the connect and browse buttons enabled.
StartBeginsButtonsEnabled ==
    /\ ~measuring
    /\ StartReady
    /\ serOpen[ser]
    /\ data_thread < MaxSessions
    /\ data_thread # None => now <= RestartSamples
    /\ LET new == data_thread + 1
       IN  /\ data_thread' = new
           /\ pc' = [pc EXCEPT ![new] = "entry"]
           /\ dt_measuring' = [dt_measuring EXCEPT ![new] = TRUE]
           /\ serial_object' = [serial_object EXCEPT ![new] = ser]
           /\ qthread' = [qthread EXCEPT ![new] = "running"]
    /\ start_text' = "Stop Acquire"
    /\ measuring' = TRUE
    /\ UNCHANGED <<app, ser, serOpen, folder_path_lineedit, connect_text,
                   connect_enabled, browse_enabled, connection_status, chartVars,
                   events, now, f, data, log, emitted, finished, reads>>

\* Lines 249-267: a new DataAcquirer on self.ser and the folder, moved to a
\* new QThread which is started; the connect and browse buttons are disabled.
\* Nothing here waits for, or looks at, the loop of the previous DataAcquirer.
StartBegins ==
    /\ ~measuring
    /\ StartReady
    /\ serOpen[ser]
    /\ data_thread < MaxSessions
    /\ data_thread # None => now <= RestartSamples
    /\ LET new == data_thread + 1
       IN  /\ data_thread' = new
           /\ pc' = [pc EXCEPT ![new] = "entry"]
           /\ dt_measuring' = [dt_measuring EXCEPT ![new] = TRUE]
           /\ serial_object' = [serial_object EXCEPT ![new] = ser]
           /\ qthread' = [qthread EXCEPT ![new] = "running"]
    /\ start_text' = "Stop Acquire"
    /\ measuring' = TRUE
    /\ connect_enabled' = FALSE
    /\ browse_enabled' = FALSE
    /\ UNCHANGED <<app, ser, serOpen, folder_path_lineedit, connect_text,
                   connection_status, chartVars, events, now, f, data, log, emitted,
                   finished, reads>>

\* Lines 272-280 without the call of toggle_port at line 282.
StopAcquireKeepsPort ==
    /\ measuring
    /\ start_text' = "Start Acquire"
    /\ measuring' = FALSE
    /\ dt_measuring' = [dt_measuring EXCEPT ![data_thread] = FALSE]
    /\ connect_enabled' = TRUE
    /\ browse_enabled' = TRUE
    /\ UNCHANGED <<app, ser, serOpen, connect_text, connection_status,
                   folder_path_lineedit, data_thread, chartVars, events, now,
                   pc, serial_object, f, data, log, emitted, finished, qthread, reads>>

\* Lines 272-282: acquire_data while measuring clears both measuring flags,
\* enables the buttons again and calls toggle_port, which closes the port.
StopAcquire ==
    /\ measuring
    /\ start_text' = "Start Acquire"
    /\ measuring' = FALSE
    /\ dt_measuring' = [dt_measuring EXCEPT ![data_thread] = FALSE]
    /\ connect_enabled' = TRUE
    /\ browse_enabled' = TRUE
    /\ \E opened \in BOOLEAN : TogglePort(opened)
    /\ UNCHANGED <<app, folder_path_lineedit, data_thread, chartVars, events, now,
                   pc, serial_object, f, data, log, emitted, finished, qthread, reads>>

\* acquire_data (lines 236-282), the slot of the one start/stop button.
acquire_data ==
    /\ app = "running"
    /\ \/ StartRefused
       \/ StartRaises
       \/ StartAborts
       \/ StartBegins
       \/ StopAcquire

\* Lines 295-297 without the pop of lines 291-293.
PushNoEvict(xs, v) == Append(xs, v)

\* Lines 291-297 on one list: at capacity the oldest entry is popped, then the
\* new one is appended.
Push(xs, v) == IF Len(xs) = NMax THEN Append(Tail(xs), v) ELSE Append(xs, v)

\* Lines 303-304: the label is set only when more than two samples are held.
StdevLabel(ys, old) == IF Len(ys) > StdevMinLen THEN ValueLabel(Stdev4(ys)) ELSE old

\* update_chart (lines 284-304), run by the presentation context for the
\* oldest queued new_data delivery.
update_chart ==
    /\ app = "running"
    /\ events # <<>>
    /\ LET new_data == Head(events)
       IN  /\ plot_x' = Push(plot_x, new_data[2])
           /\ plot_y' = Push(plot_y, new_data[1])
           /\ current_temp' = ValueLabel(new_data[1])
           /\ stdev_temp' = StdevLabel(Push(plot_y, new_data[1]), stdev_temp)
           /\ pushed' = Append(pushed, new_data)
    /\ events' = Tail(events)
    /\ UNCHANGED <<app, uiVars, now, loopVars>>

\* Line 260: finished is connected to thread.quit; once delivered, the
\* QThread of that DataAcquirer leaves its event loop.
thread_quit(s) ==
    /\ app = "running"
    /\ qthread[s] = "running"
    /\ finished[s] > 0
    /\ qthread' = [qthread EXCEPT ![s] = "finished"]
    /\ UNCHANGED <<app, uiVars, chartVars, events, now, pc, dt_measuring,
                   serial_object, f, data, log, emitted, finished, reads>>

\* --------------------------------------------------- acquisition context
\* data_acquire_loop (lines 325-356) of DataAcquirer s, one step at a time.
\* pc: "entry" 327, "test" 329, "open" 330, "read" 333-342, "emit" 344,
\* "write" 345, "sleep" 350, "backoff" 352-353, "close" 355, "finish" 356,
\* "done" returned, "raised" left by an exception.
Goto(s, where) == pc' = [pc EXCEPT ![s] = where]

PortOpen(s) == serOpen[serial_object[s]]

\* Line 327: inWaiting() raises on a port that is not open; nothing in
\* data_acquire_loop catches it.
loop_entry(s) ==
    /\ app = "running"
    /\ pc[s] = "entry"
    /\ IF PortOpen(s)
       THEN Goto(s, "test") /\ UNCHANGED app
       ELSE Goto(s, "raised") /\ Escapes
    /\ UNCHANGED <<uiVars, chartVars, events, now, dt_measuring, serial_object, f,
                   data, log, emitted, finished, qthread, reads>>

\* A loop test that goes on whatever the flag says.
loop_test_ignores_flag(s) ==
    /\ app = "running"
    /\ pc[s] = "test"
    /\ Goto(s, "open")
    /\ UNCHANGED <<app, uiVars, chartVars, events, now, dt_measuring, serial_object,
                   f, data, log, emitted, finished, qthread, reads>>

\* Line 329: while self.measuring.
loop_test(s) ==
    /\ app = "running"
    /\ pc[s] = "test"
    /\ Goto(s, IF dt_measuring[s] THEN "open" ELSE "close")
    /\ UNCHANGED <<app, uiVars, chartVars, events, now, dt_measuring, serial_object,
                   f, data, log, emitted, finished, qthread, reads>>

\* Line 330: f = open(self.file_path, "a"), outside the try: it binds f (and
\* creates the file), or raises and leaves the loop.
loop_open(s) ==
    /\ app = "running"
    /\ pc[s] = "open"
    /\ \/ Goto(s, "read") /\ f' = [f EXCEPT ![s] = "open"] /\ UNCHANGED app
       \/ Goto(s, "raised") /\ Escapes /\ UNCHANGED f
    /\ UNCHANGED <<uiVars, chartVars, events, now, dt_measuring, serial_object,
                   data, log, emitted, finished, qthread, reads>>

\* Lines 335-342 and 347-348 with the bytes readline() returned: without
\* 'T' the cycle goes to its sleep, with a field float() rejects the
\* ValueError goes to the except clause, otherwise data = [temperature,
\* time_now].
loop_read_line(s, bytes) ==
    /\ app = "running"
    /\ pc[s] = "read"
    /\ PortOpen(s)
    /\ reads' = [reads EXCEPT ![s] = "returned"]
    /\ LET parsed == ParseLine(bytes)
       IN  IF parsed.kind = "NoData"
           THEN Goto(s, "sleep") /\ UNCHANGED <<data, now>>
           ELSE IF parsed.kind = "ValueError"
           THEN Goto(s, "backoff") /\ UNCHANGED <<data, now>>
           ELSE /\ now < SampleBudget
                /\ now' = now + 1
                /\ data' = [data EXCEPT ![s] = <<parsed.val, now + 1>>]
                /\ Goto(s, "emit")
    /\ UNCHANGED <<app, uiVars, chartVars, events, dt_measuring, serial_object, f,
                   log, emitted, finished, qthread>>

\* Line 333 raising: the port is not open, or the device fails (the one call
\* at which a device failure is modelled); the except clause takes over.
loop_read_raises(s) ==
    /\ app = "running"
    /\ pc[s] = "read"
    /\ Goto(s, "backoff")
    /\ reads' = [reads EXCEPT ![s] = IF @ = "none" THEN "raised" ELSE @]
    /\ UNCHANGED <<app, uiVars, chartVars, events, now, dt_measuring, serial_object,
                   f, data, log, emitted, finished, qthread>>

\* Lines 333-342 and 347-348: readline() raises or returns bytes.
loop_read(s) ==
    \/ loop_read_raises(s)
    \/ \E bytes \in DeviceLines(now) : loop_read_line(s, bytes)

\* An emit that keeps only the newest undelivered sample.
loop_emit_latest_only(s) ==
    /\ app = "running"
    /\ pc[s] = "emit"
    /\ emitted' = [emitted EXCEPT ![s] = Append(@, data[s])]
    /\ events' = <<data[s]>>
    /\ Goto(s, "write")
    /\ UNCHANGED <<app, uiVars, chartVars, now, dt_measuring, serial_object, f, data,
                   log, finished, qthread, reads>>

\* An emit that waits until update_chart has taken the previous sample.
loop_emit_blocking(s) ==
    /\ app = "running"
    /\ pc[s] = "emit"
    /\ events = <<>>
    /\ emitted' = [emitted EXCEPT ![s] = Append(@, data[s])]
    /\ events' = Append(events, data[s])
    /\ Goto(s, "write")
    /\ UNCHANGED <<app, uiVars, chartVars, now, dt_measuring, serial_object, f, data,
                   log, finished, qthread, reads>>

\* Line 344: self.new_data.emit(data): a queued delivery to update_chart.
loop_emit(s) ==
    /\ app = "running"
    /\ pc[s] = "emit"
    /\ emitted' = [emitted EXCEPT ![s] = Append(@, data[s])]
    /\ events' = Append(events, data[s])
    /\ Goto(s, "write")
    /\ UNCHANGED <<app, uiVars, chartVars, now, dt_measuring, serial_object, f, data,
                   log, finished, qthread, reads>>

\* Line 345: f.write(...) appends the line, or raises into the except clause.
loop_write(s) ==
    /\ app = "running"
    /\ pc[s] = "write"
    /\ \/ log' = [log EXCEPT ![s] = Append(@, data[s])] /\ Goto(s, "sleep")
       \/ UNCHANGED log /\ Goto(s, "backoff")
    /\ data' = [data EXCEPT ![s] = NoSample]
    /\ UNCHANGED <<app, uiVars, chartVars, events, now, dt_measuring, serial_object,
                   f, emitted, finished, qthread, reads>>

\* Line 350: time.sleep(0.25), then back to the loop test.
loop_sleep(s) ==
    /\ app = "running"
    /\ pc[s] = "sleep"
    /\ Goto(s, "test")
    /\ UNCHANGED <<app, uiVars, chartVars, events, now, dt_measuring, serial_object,
                   f, data, log, emitted, finished, qthread, reads>>

\* Lines 351-353: except Exception: time.sleep(10), then back to the test.
loop_backoff(s) ==
    /\ app = "running"
    /\ pc[s] = "backoff"
    /\ Goto(s, "test")
    /\ UNCHANGED <<app, uiVars, chartVars, events, now, dt_measuring, serial_object,
                   f, data, log, emitted, finished, qthread, reads>>

\* Line 355: f.close(); f is unbound when the loop body never ran, and the
\* NameError leaves data_acquire_loop before line 356.
loop_close(s) ==
    /\ app = "running"
    /\ pc[s] = "close"
    /\ IF f[s] = "unbound"
       THEN Goto(s, "raised") /\ Escapes /\ UNCHANGED f
       ELSE Goto(s, "finish") /\ f' = [f EXCEPT ![s] = "closed"] /\ UNCHANGED app
    /\ UNCHANGED <<uiVars, chartVars, events, now, dt_measuring, serial_object,
                   data, log, emitted, finished, qthread, reads>>

\* Line 356: self.finished.emit().
loop_finish(s) ==
    /\ app = "running"
    /\ pc[s] = "finish"
    /\ finished' = [finished EXCEPT ![s] = @ + 1]
    /\ Goto(s, "done")
    /\ UNCHANGED <<app, uiVars, chartVars, events, now, dt_measuring, serial_object,
                   f, data, log, emitted, qthread, reads>>

data_acquire_loop(s) ==
    \/ loop_entry(s)
    \/ loop_test(s)
    \/ loop_open(s)
    \/ loop_read(s)
    \/ loop_emit(s)
    \/ loop_write(s)
    \/ loop_sleep(s)
    \/ loop_backoff(s)
    \/ loop_close(s)
    \/ loop_finish(s)

Next ==
    \/ toggle_port
    \/ browse_file_folder
    \/ acquire_data
    \/ update_chart
    \/ \E s \in Sessions : thread_quit(s)
    \/ \E s \in Sessions : data_acquire_loop(s)

Spec == Init /\ [][Next]_vars

\* ----------------------------------------------------------------- claims
\* The positions inside the while loop of data_acquire_loop.
Cycle == {"test", "open", "read", "emit", "write", "sleep", "backoff"}
InCycle(s) == app = "running" /\ pc[s] \in Cycle
Min(a, b) == IF a <= b THEN a ELSE b

C2_EmittedAlreadyLogged ==
    \A s \in Sessions : \A i \in 1..Len(emitted[s]) :
        \E j \in 1..Len(log[s]) : log[s][j] = emitted[s][i]

\* C3: each time the loop tests its measuring flag, the samples emitted so
\* far are exactly the samples appended to the log file so far.
C3_CycleBoundaryEmittedEqualsLogged ==
    \A s \in Sessions : pc[s] = "test" => emitted[s] = log[s]

\* C4: a stopped session whose data_acquire_loop has ended has signalled
\* finished exactly once.
C4_StoppedLoopFinishedOnce ==
    \A s \in Sessions :
        (pc[s] \in {"done", "raised"} /\ ~dt_measuring[s]) => finished[s] = 1

\* C5: a loop all of whose device reads have raised, and which was not asked
\* to stop, is still in its while loop.
C5_ReadErrorsNeverEndLoop ==
    \A s \in Sessions : (reads[s] = "raised" /\ dt_measuring[s]) => pc[s] \in Cycle

\* C6: from the open of the log file and from the write of a line the loop
\* goes on to the next step of the cycle or to its backoff, never out of the
\* loop.
C6_FileErrorsStayInLoop ==
    [][\A s \in Sessions :
          /\ pc[s] = "open" => pc'[s] \in {"open", "read", "backoff"}
          /\ pc[s] = "write" => pc'[s] \in {"write", "sleep", "backoff"}]_vars

\* C7: the history buffer holds min(pushes, NMax) samples, and they are the
\* last ones pushed, in push order (so its oldest is push number
\* pushes - NMax + 1 once pushes > NMax).
C7_BufferIsLastNMaxPushes ==
    LET n == Min(Len(pushed), NMax)
    IN  /\ Len(plot_x) = n
        /\ Len(plot_y) = n
        /\ \A i \in 1..n :
              <<plot_y[i], plot_x[i]>> = pushed[Len(pushed) - n + i]

\* C7: more samples have been pushed than the buffer holds.
C7_Witness == Len(pushed) > NMax /\ Len(plot_y) = NMax

\* C8: after a push the deviation shown is undefined (not '0', not a number)
\* while the buffer holds fewer than 2 samples, and is the deviation of the
\* whole buffer once it holds 2 or more.
C8_StdevUndefinedBelowTwo ==
    Len(pushed) > 0 =>
        IF Len(plot_y) < 2 THEN stdev_temp.shown = "undefined"
        ELSE stdev_temp = ValueLabel(Stdev4(plot_y))

\* C9: acquire_data while not measuring, with no open port or no folder,
\* creates no DataAcquirer, thread or file and leaves the measuring flags and
\* the connection as they were.
C9_RefusedStartChangesNothing ==
    [][(/\ acquire_data
        /\ ~measuring
        /\ (ser = None \/ ~serOpen[ser] \/ folder_path_lineedit = ""))
       => UNCHANGED <<measuring, ser, serOpen, data_thread, pc, dt_measuring,
                      serial_object, qthread, f, log, emitted, events>>]_vars

\* C9: start was pressed with a folder chosen and a Serial object whose port
\* is not open; no session exists.
C9_Witness ==
    /\ app = "running"
    /\ ser # None
    /\ ~serOpen[ser]
    /\ folder_path_lineedit # ""
    /\ start_text = "Stop Acquire"
    /\ ~measuring
    /\ data_thread = None

\* C10 as stated: acquire_data called while a session is measuring leaves the
\* session untouched: flags, connection and loop as they were.
C10_SecondCallLeavesSession ==
    [][(acquire_data /\ measuring)
       => UNCHANGED <<measuring, dt_measuring, ser, serOpen, pc>>]_vars

\* C10 as amended: acquire_data called while a session is measuring is the
\* stop: it clears both measuring flags, enables the buttons, closes and
\* drops the connection, and creates no further session.
C10_SecondCallStops ==
    [][(acquire_data /\ measuring)
       => /\ ~measuring'
          /\ ~dt_measuring'[data_thread]
          /\ ser' = None
          /\ ~serOpen'[ser]
          /\ connect_enabled' /\ browse_enabled'
          /\ UNCHANGED <<data_thread, pc, qthread, app>>]_vars

\* C10: the second call has been made while the loop of the session runs on.
C10_Witness ==
    /\ start_text = "Start Acquire"
    /\ ~measuring
    /\ ser = None
    /\ data_thread # None
    /\ InCycle(data_thread)

\* A line the parsing rejects: it has no marker character 'T', or it has one
\* and the seven characters that follow the marker and its separator hold a
\* character that no number contains.
HasMarker(bytes) == \E i \in 1..Len(bytes) : bytes[i] = "T"
MarkerAt(bytes) == CHOOSE i \in 1..Len(bytes) : bytes[i] = "T" /\ \A j \in 1..(i - 1) : bytes[j] # "T"
NumberChar(c) == IsDigit(c) \/ c \in {".", "-", "+", " "}
RejectedLine(bytes) ==
    \/ ~HasMarker(bytes)
    \/ \E i \in (MarkerAt(bytes) + 2)..Min(MarkerAt(bytes) + 8, Len(bytes)) :
          ~NumberChar(bytes[i])

\* C11: a cycle that read a rejected line emits no sample and writes nothing
\* to the log file: the read goes to one of the two sleeps of the loop with
\* the signal queue, the emitted samples and the log untouched, the sleep
\* emits and writes nothing either, and after it the loop tests its flag
\* and, not stopped, starts the next cycle.
C11_RejectedLineEmitsNothing ==
    [][\A s \in Sessions :
          /\ (pc[s] = "read" /\ pc'[s] # "read")
                => \A bytes \in DeviceLines(now) :
                      (RejectedLine(bytes) /\ loop_read_line(s, bytes))
                          => /\ pc'[s] \in {"sleep", "backoff"}
                             /\ UNCHANGED <<events, emitted, log, data, now>>
          /\ pc[s] \in {"sleep", "backoff"}
                => /\ pc'[s] \in {pc[s], "test"}
                   /\ emitted'[s] = emitted[s]
                   /\ log'[s] = log[s]
          /\ (pc[s] = "test" /\ dt_measuring[s] /\ pc'[s] # "test")
                => pc'[s] = "open"]_vars
\* A read has returned a line from which nothing was emitted or logged, and
\* the loop that read it has gone on to the read of a later cycle.
C11_Witness ==
    \E s \in Sessions :
        /\ app = "running"
        /\ reads[s] = "returned"
        /\ pc[s] = "read"
        /\ PortOpen(s)
        /\ emitted[s] = <<>>
        /\ log[s] = <<>>
        /\ events = <<>>
        /\ pushed = <<>>

\* C15: a line that parsing rejects, with or without the marker, sends the
\* loop to its short sleep between cycles, not to the backoff.
C15_RejectedLineTakesShortSleep ==
    [][\A s \in Sessions : \A bytes \in DeviceLines(now) :
          (RejectedLine(bytes) /\ loop_read_line(s, bytes)) => pc'[s] = "sleep"]_vars

\* The samples of a sequence, and the samples update_chart has received or
\* will receive, in delivery order.
Range(q) == {q[i] : i \in 1..Len(q)}
Delivered == pushed \o events

\* C12: the samples update_chart has received, followed by those queued for
\* it, are the samples the loops emitted: those of each session in the order
\* of their emission, each once, and no others; the newest one received is
\* the newest entry of the history buffer.
C12_ReceivedAreEmittedInOrder ==
    /\ \A s \in Sessions :
          SelectSeq(Delivered, LAMBDA x : x \in Range(emitted[s])) = emitted[s]
    /\ Range(Delivered) = UNION {Range(emitted[s]) : s \in Sessions}
    /\ Cardinality(Range(Delivered)) = Len(Delivered)
    /\ pushed # <<>> =>
          <<plot_y[Len(plot_y)], plot_x[Len(plot_x)]>> = pushed[Len(pushed)]
\* A sample has been received while two more of the same session wait in the
\* queue.
C12_Witness ==
    /\ Len(pushed) >= 1
    /\ Len(events) >= 2
    /\ \E s \in Sessions : Len(emitted[s]) >= 3

\* C13: whenever a loop stands at its emit, the emit can be taken, whatever
\* the number of samples update_chart has not yet processed.
C13_EmitNeverBlocked ==
    \A s \in Sessions : (app = "running" /\ pc[s] = "emit") => ENABLED loop_emit(s)
\* A loop stands at its emit with all the samples emitted so far, more than
\* one, still unprocessed.
C13_Witness ==
    \E s \in Sessions :
        /\ app = "running"
        /\ pc[s] = "emit"
        /\ pushed = <<>>
        /\ Len(events) >= 2
        /\ events = emitted[s]

\* C14: while the loop of a session is inside its while loop, the serial
\* port it reads from is open: the port is closed only after the loop's last
\* cycle.
C14_PortOpenWhileLoopAlive == \A s \in Sessions : InCycle(s) => PortOpen(s)

\* C17: self.ser holds a Serial object exactly when the connect button shows
\* the connected state, and the object it holds is open; after a failed
\* open it holds none.
C17_HandleIffOpenAndConnected ==
    /\ (ser # None) <=> (connect_text = "Disconnect")
    /\ ser # None => serOpen[ser]

\* C18: while the window is measuring, self.ser holds an open Serial object
\* and the connect and browse buttons are disabled; a step that ends the
\* measuring or touches the connection is the stop of acquire_data, and it
\* leaves the window idle and disconnected: not measuring, self.ser None,
\* both buttons enabled.
C18_MeasuringKeepsPortUntilStop ==
    /\ []((app = "running" /\ measuring)
            => /\ ser # None
               /\ serOpen[ser]
               /\ ~connect_enabled
               /\ ~browse_enabled)
    /\ [][(measuring /\ (~measuring' \/ ser' # ser \/ serOpen' # serOpen))
            => /\ acquire_data
               /\ ~measuring'
               /\ ser' = None
               /\ serOpen' = [serOpen EXCEPT ![ser] = FALSE]
               /\ connect_enabled'
               /\ browse_enabled'
               /\ start_text' = "Start Acquire"]_vars
\* The window after the stop of a session whose loop had read the device.
C18_Witness ==
    /\ app = "running"
    /\ ~measuring
    /\ ser = None
    /\ connect_enabled
    /\ browse_enabled
    /\ data_thread # None
    /\ ~dt_measuring[data_thread]
    /\ reads[data_thread] = "returned"
    /\ ~serOpen[serial_object[data_thread]]

\* How far a position of data_acquire_loop is on the way of one pass through
\* the loop body and out of the function.
Rank(p) ==
    CASE p = "none" -> 0
      [] p = "entry" -> 1
      [] p = "open" -> 2
      [] p = "read" -> 3
      [] p = "emit" -> 4
      [] p = "write" -> 5
      [] p \in {"sleep", "backoff"} -> 6
      [] p = "test" -> 7
      [] p = "close" -> 8
      [] p = "finish" -> 9
      [] p \in {"done", "raised"} -> 10

\* C16: once the measuring flag of a DataAcquirer is False, its loop test
\* leaves the while loop instead of starting a cycle and the loop only moves
\* on through the cycle in progress and out, never back; a sample is emitted
\* only by the step from the emit to the write and logged only by the step
\* from the write to the sleep, one at a time, so each happens at most once
\* after the stop.
C16_StopIsBounded ==
    [][\A s \in Sessions :
          (pc[s] # "none" /\ ~dt_measuring[s])
              => /\ Rank(pc'[s]) >= Rank(pc[s])
                 /\ pc[s] = "test" => pc'[s] \in {"test", "close"}
                 /\ emitted'[s] # emitted[s]
                       => /\ pc[s] = "emit" /\ pc'[s] = "write"
                          /\ emitted'[s] = Append(emitted[s], data[s])
                 /\ log'[s] # log[s]
                       => /\ pc[s] = "write" /\ pc'[s] = "sleep"
                          /\ log'[s] = Append(log[s], data[s])
                 /\ ~dt_measuring'[s]]_vars
\* A stopped loop holds the sample its cycle in progress had read before the
\* stop, after earlier samples, and is about to emit it.
C16_Witness ==
    \E s \in Sessions :
        /\ app = "running"
        /\ ~dt_measuring[s]
        /\ pc[s] = "emit"
        /\ data[s] # NoSample
        /\ Len(emitted[s]) >= 1

====
